---- MODULE Spec2Model ----
(***************************************************************************)
(* The training notebook bondnet/scripts/train_bde.ipynb as a state        *)
(* machine: the functions train and evaluate (cells 5 and 6) and the main  *)
(* training loop with its checkpoint file (cell 7).                        *)
(*                                                                         *)
(* Three specifications share the definitions:                             *)
(*   Spec        runs of cell 7 (the driver), with crashes and reruns;     *)
(*   SpecLoops   a notebook session calling train and evaluate in any      *)
(*               order;                                                    *)
(*   SpecLoader  passes over a batch loader.                               *)
(***************************************************************************)
EXTENDS Integers, Sequences, FiniteSets, TLC

\* ------------------------------------------------------------------ bounds
MaxEpochs == 2      \* num_epochs ranges over 0..MaxEpochs
MaxTrained == 3     \* epochs trained in one kernel, over all executions of cell 7
MaxTrain == 3       \* examples in the training set, 0..MaxTrain
MaxBatch == 2       \* batch size of the training loader, 1..MaxBatch
MaxEval == 1        \* examples in the validation and in the test set
MaxCalls == 3       \* calls of train/evaluate in a notebook session
MaxN == 4           \* examples of the dataset of the batch loader
MaxPasses == 2      \* passes over the batch loader

\* ------------------------------------------------------------------ floats
\* A float is <<e, m>>, the number m * 10^e with a one-digit mantissa
\* 1 <= m <= 9 (scientific notation, as the literal 1e10), or NaN.
NaN == <<-1, 0>>
F(m) == <<0, m>>
None == <<-2, 0>>                 \* no value (a variable not yet assigned)

\* Python's a < b on floats: false whenever an operand is NaN.
Lt(a, b) ==
    /\ a # NaN
    /\ b # NaN
    /\ \/ a[1] < b[1]
       \/ a[1] = b[1] /\ a[2] < b[2]

\* best = 1e10
BestInit == <<10, 1>>

\* The metric values an evaluation may return: 3.0, 5.0, 2e10 and NaN.
Vals == {F(3), F(5), <<10, 2>>, NaN}

\* ------------------------------------------------------------ batch loader
\* A pass that drops the last batch when it is short (drop_last).
RECURSIVE DropLastBatches(_, _)
DropLastBatches(order, B) ==
    IF Len(order) < B THEN <<>>
    ELSE <<SubSeq(order, 1, B)>> \o DropLastBatches(SubSeq(order, B + 1, Len(order)), B)

\* One pass over the examples `order` in batches of B, the last one short
\* when B does not divide their number.
RECURSIVE Batches(_, _)
Batches(order, B) ==
    IF Len(order) = 0 THEN <<>>
    ELSE IF Len(order) <= B THEN <<order>>
    ELSE <<SubSeq(order, 1, B)>> \o Batches(SubSeq(order, B + 1, Len(order)), B)

\* The dataset of n examples; example i is the number 100 + i.
Dataset(n) == [i \in 1..n |-> 100 + i]

\* Every order of the elements of S, as a sequence.
RECURSIVE Perms(_)
Perms(S) ==
    IF S = {} THEN {<<>>}
    ELSE UNION {{<<x>> \o p : p \in Perms(S \ {x})} : x \in S}

\* The sizes of the batches of one pass over n examples.
BatchSizes(n, B) ==
    LET bs == Batches(Dataset(n), B)
    IN  [i \in 1..Len(bs) |-> Len(bs[i])]

RECURSIVE Sum(_)
Sum(s) == IF Len(s) = 0 THEN 0 ELSE Head(s) + Sum(Tail(s))

RECURSIVE Concat(_)
Concat(ss) == IF Len(ss) = 0 THEN <<>> ELSE Head(ss) \o Concat(Tail(ss))

\* ------------------------------------------------------------------- state
VARIABLES
    cfg,         \* num_epochs and the sizes of the three loaders
    pc,          \* position of the program
    caller,      \* "driver" (cell 7) or "session" (functions called by hand)
    calls,       \* number of train/evaluate calls of the session
    epoch,       \* loop variable of the main training loop, -1 while unbound
    next_epoch,  \* the next value of range(num_epochs)
    params,      \* the model's parameters (state_dict), as a version number
    fresh,       \* the next unused version number
    training,    \* model.training: TRUE training mode, FALSE inference mode
    grad,        \* the batches whose loss gradients are summed in .grad
    npass,       \* number of training passes started
    iter,        \* batches left in the pass of the training loader (sizes)
    it,          \* train's loop counter, -1 while unbound
    epoch_loss,  \* train's sum of losses: the batches added, in order
    accuracy,    \* train's sum of metrics: the batches added, in order
    count,       \* train's number of examples
    loss,        \* [terms, div]: returned epoch_loss
    train_acc,   \* [terms, div]: returned accuracy
    val_acc,
    test_acc,
    best,
    file,        \* checkpoint.pkl: [st, data]
    oracle,      \* what the model in inference mode has been seen to score
    log,         \* history of predictions, optimizer steps, saves, loads
    out,         \* lines printed
    err,         \* the exception that ended the run, "" if none
    dl           \* the batch loader of SpecLoader

vars == <<cfg, pc, caller, calls, epoch, next_epoch, params, fresh, training, grad, npass,
          iter, it, epoch_loss, accuracy, count, loss, train_acc, val_acc,
          test_acc, best, file, oracle, log, out, err, dl>>

trainVars == <<iter, it, epoch_loss, accuracy, count, loss, train_acc, npass>>
modelVars == <<params, fresh, training, grad>>
ckptVars == <<best, file>>
loopVars == <<epoch, next_epoch>>

NoIt == -1          \* `it` before the first iteration of the loop
StaleState == -1    \* parameters saved by an earlier run of the notebook
NoState == -2       \* no parameters (file absent)

NoFile == [st |-> "absent", data |-> NoState]

Event(kind, fn, i, mode, p, g, v) ==
    [ev |-> kind, fn |-> fn, pass |-> npass, it |-> i, training |-> mode,
     params |-> p, grad |-> g, val |-> v]

Idle == [ds |-> <<>>, B |-> 1, shuffle |-> FALSE, iter |-> <<>>,
         yielded |-> <<>>, npass |-> 0, active |-> FALSE]

\* The three loaders of cell 3, as batch sizes. The validation and the test
\* loader hold their whole set in one batch (batch_size=len(valset)).
LoaderBatches(ldr) ==
    CASE ldr = "train" -> BatchSizes(cfg.ntrain, cfg.batch)
      [] ldr = "val" -> BatchSizes(cfg.nval, IF cfg.nval = 0 THEN 1 ELSE cfg.nval)
      [] ldr = "test" -> BatchSizes(cfg.ntest, IF cfg.ntest = 0 THEN 1 ELSE cfg.ntest)

Configs ==
    [num_epochs : 0..MaxEpochs, ntrain : 0..MaxTrain, batch : 1..MaxBatch,
     nval : 0..MaxEval, ntest : 0..MaxEval]

InitCommon ==
    /\ calls = 0
    /\ epoch = -1
    /\ next_epoch = 0
    /\ params = 0
    /\ fresh = 1
    /\ training = TRUE
    /\ grad = {}
    /\ npass = 0
    /\ iter = <<>>
    /\ it = NoIt
    /\ epoch_loss = <<>>
    /\ accuracy = <<>>
    /\ count = 0
    /\ loss = [terms |-> <<>>, div |-> 0]
    /\ train_acc = [terms |-> <<>>, div |-> 0]
    /\ val_acc = None
    /\ test_acc = None
    /\ best = BestInit
    /\ oracle = {}
    /\ log = <<>>
    /\ out = <<>>
    /\ err = ""

\* The state before cell 7 runs for the first time: no checkpoint.pkl yet.
Init ==
    /\ InitCommon
    /\ cfg \in Configs
    /\ dl = Idle
    /\ pc = "for"
    /\ caller = "driver"
    /\ file = NoFile

\* ------------------------------------------------------- predictor (opaque)
\* The metric r of the model with parameters p on loader ldr. In inference
\* mode it is a function of p and ldr, fixed the first time it is observed;
\* in training mode training-only behaviour (dropout) makes it vary.
Metric(mode, p, ldr, r) ==
    /\ r \in Vals
    /\ IF mode THEN UNCHANGED oracle
       ELSE IF \E e \in oracle : e[1] = p /\ e[2] = ldr
            THEN <<p, ldr, r>> \in oracle /\ UNCHANGED oracle
            ELSE oracle' = oracle \cup {<<p, ldr, r>>}

\* ---------------------------------------------------------------- evaluate
\* evaluate without model.eval(): the mode stays what it was
EvalModeKept == training

\* model.eval()
EvalMode == FALSE

\* a division that returns a value for every count
DivAlwaysOk(cnt) == TRUE

\* accuracy / count on Python floats: ZeroDivisionError when count == 0.0
DivOk(cnt) == cnt # 0

\* def evaluate(model, nodes, data_loader, metric_fn): returns r when ok,
\* raises when not ok.
Evaluate(ldr, r, ok) ==
    LET bs == LoaderBatches(ldr)
        mode == EvalMode
        preds == [i \in 1..Len(bs) |->
                    Event("predict", "evaluate", i - 1, mode, params, grad, None)]
    IN  /\ training' = mode
        /\ UNCHANGED <<params, fresh, grad>>
        /\ ok = DivOk(Sum(bs))
        /\ IF ok
           THEN /\ Metric(mode, params, ldr, r)
                /\ err' = ""
           ELSE /\ r = None
                /\ UNCHANGED oracle
                /\ err' = "ZeroDivisionError"
        /\ log' = log \o preds \o
                    <<Event(IF ok THEN "eval" ELSE "eval_raise", ldr, Len(bs), mode,
                            params, grad, r)>>

\* ------------------------------------------------------------------- train
\* train without model.train(): the mode stays what it was
TrainModeKept == training

\* model.train()
TrainMode == TRUE

\* a loop without optimizer.zero_grad(): the gradients add up
ZeroGradSkipped(g) == g

\* optimizer.zero_grad()
ZeroGrad(g) == {}

\* lines 192-198: mode, accumulators, start of the pass over the loader
TrainBegin ==
    /\ pc = "train_begin"
    /\ training' = TrainMode
    /\ epoch_loss' = <<>>
    /\ accuracy' = <<>>
    /\ count' = 0
    /\ it' = NoIt
    /\ iter' = LoaderBatches("train")
    /\ npass' = npass + 1
    /\ pc' = "train_loop"
    /\ UNCHANGED <<cfg, caller, calls, loopVars, params, fresh, grad, loss, train_acc,
                   val_acc, test_acc, best, file, oracle, log, out, err, dl>>

\* lines 198-213: one iteration of the loop over the batches
TrainBatch ==
    /\ pc = "train_loop"
    /\ iter # <<>>
    /\ LET i == it + 1
           g == ZeroGrad(grad) \cup {<<npass, i>>}     \* zero_grad(); loss.backward()
       IN  /\ it' = i
           /\ iter' = Tail(iter)
           /\ grad' = g
           /\ params' = fresh                           \* optimizer.step()
           /\ fresh' = fresh + 1
           /\ log' = log \o
                 <<Event("predict", "train", i, training, params, grad, None),
                   Event("step", "train", i, training, fresh, g, None)>>
           /\ epoch_loss' = Append(epoch_loss, i)
           /\ accuracy' = Append(accuracy, i)
           /\ count' = count + Head(iter)
    /\ UNCHANGED <<cfg, pc, caller, calls, loopVars, training, npass, loss, train_acc,
                   val_acc, test_acc, best, file, oracle, out, err, dl>>

\* lines 215-218: after the loop; `it` is unbound when the loader was empty
TrainEnd ==
    /\ pc = "train_loop"
    /\ iter = <<>>
    /\ IF it = NoIt
       THEN /\ err' = "UnboundLocalError"
            /\ pc' = "error"
            /\ UNCHANGED <<loss, train_acc>>
       ELSE /\ loss' = [terms |-> epoch_loss, div |-> it + 1]
            /\ train_acc' = [terms |-> accuracy, div |-> count]
            /\ pc' = IF caller = "driver" THEN "eval_val" ELSE "idle"
            /\ err' = err
    /\ UNCHANGED <<cfg, caller, calls, loopVars, params, fresh, training, grad, npass,
                   iter, it, epoch_loss, accuracy, count, val_acc, test_acc, best,
                   file, oracle, log, out, dl>>

\* ------------------------------------------------------------------ driver
\* for epoch in range(num_epochs):
ForNext ==
    /\ pc = "for"
    /\ IF next_epoch < cfg.num_epochs
       THEN epoch' = next_epoch /\ next_epoch' = next_epoch + 1 /\ pc' = "train_begin"
       ELSE UNCHANGED loopVars /\ pc' = "load"
    /\ UNCHANGED <<cfg, caller, calls, modelVars, trainVars, val_acc, test_acc,
                   ckptVars, oracle, log, out, err, dl>>

\* val_acc = evaluate(model, feature_names, val_loader, metric)
EvalVal ==
    /\ pc = "eval_val"
    /\ \E r \in Vals \cup {None}, ok \in BOOLEAN :
          /\ Evaluate("val", r, ok)
          /\ IF ok THEN val_acc' = r /\ pc' = "is_best"
                   ELSE val_acc' = val_acc /\ pc' = "error"
    /\ UNCHANGED <<cfg, caller, calls, loopVars, trainVars, test_acc, ckptVars, out, dl>>

\* the comparison written as not (best < val_acc)
IsBestOrEqual(v, b) == ~Lt(b, v)

\* is_best = val_acc < best
IsBest(v, b) == Lt(v, b)

\* lines 319-321: the comparison and best = val_acc
CheckBest ==
    /\ pc = "is_best"
    /\ IF IsBest(val_acc, best)
       THEN best' = val_acc /\ pc' = "save_open"
       ELSE best' = best /\ pc' = "print"
    /\ log' = Append(log, Event("maybe_save", "driver", epoch, training, params, grad,
                                val_acc))
    /\ UNCHANGED <<cfg, caller, calls, loopVars, modelVars, trainVars, val_acc,
                   test_acc, file, oracle, out, err, dl>>

\* torch.save(model.state_dict(), 'checkpoint.pkl') opens the file itself for
\* writing, which leaves it empty, and then writes the blob into it.
SaveOpen ==
    /\ pc = "save_open"
    /\ file' = [st |-> "empty", data |-> params]
    /\ pc' = "save_write"
    /\ UNCHANGED <<cfg, caller, calls, loopVars, modelVars, trainVars, val_acc,
                   test_acc, best, oracle, log, out, err, dl>>

SaveWrite ==
    /\ pc = "save_write"
    /\ file' = [st |-> "complete", data |-> params]
    /\ log' = Append(log, Event("save", "driver", epoch, training, params, grad, val_acc))
    /\ pc' = "print"
    /\ UNCHANGED <<cfg, caller, calls, loopVars, modelVars, trainVars, val_acc,
                   test_acc, best, oracle, out, err, dl>>

\* print("{:5d}   {:12.6e}   {:12.6e}   {:12.6e}".format(epoch, loss, train_acc, val_acc))
PrintEpoch ==
    /\ pc = "print"
    /\ out' = Append(out, [epoch |-> epoch, loss |-> loss, train_acc |-> train_acc,
                           acc |-> val_acc])
    /\ pc' = "for"
    /\ UNCHANGED <<cfg, caller, calls, loopVars, modelVars, trainVars, val_acc,
                   test_acc, ckptVars, oracle, log, err, dl>>

\* the checkpoint read but not put into the model
LoadStateDictSkipped(checkpoint, p) == p

\* model.load_state_dict(checkpoint)
LoadStateDict(checkpoint, p) == checkpoint

\* checkpoint = torch.load("checkpoint.pkl"); model.load_state_dict(checkpoint)
LoadBest ==
    /\ pc = "load"
    /\ CASE file.st = "absent" ->
              /\ err' = "FileNotFoundError"
              /\ pc' = "error"
              /\ UNCHANGED <<params, log>>
         [] file.st = "empty" ->
              /\ err' = "EOFError"
              /\ pc' = "error"
              /\ UNCHANGED <<params, log>>
         [] file.st = "complete" ->
              /\ params' = LoadStateDict(file.data, params)
              /\ log' = Append(log, Event("load", "driver", epoch, training,
                                          file.data, grad, None))
              /\ pc' = "eval_test"
              /\ err' = err
    /\ UNCHANGED <<cfg, caller, calls, loopVars, fresh, training, grad, trainVars,
                   val_acc, test_acc, ckptVars, oracle, out, dl>>

\* test_acc = evaluate(model, feature_names, test_loader, metric)
EvalTest ==
    /\ pc = "eval_test"
    /\ \E r \in Vals \cup {None}, ok \in BOOLEAN :
          /\ Evaluate("test", r, ok)
          /\ IF ok THEN test_acc' = r /\ pc' = "print_test"
                   ELSE test_acc' = test_acc /\ pc' = "error"
    /\ UNCHANGED <<cfg, caller, calls, loopVars, trainVars, val_acc, ckptVars, out, dl>>

\* print("TestAcc: {:12.6e}".format(test_acc))
PrintTest ==
    /\ pc = "print_test"
    /\ out' = Append(out, [epoch |-> -1, loss |-> loss, train_acc |-> train_acc,
                           acc |-> test_acc])
    /\ pc' = "done"
    /\ UNCHANGED <<cfg, caller, calls, loopVars, modelVars, trainVars, val_acc,
                   test_acc, ckptVars, oracle, log, err, dl>>

\* A kernel that has just started and run the cells before the loop: the
\* names of the notebook hold what cells 3, 4 and 7 first give them, and
\* nothing has been printed.
NewKernel ==
    /\ calls' = 0
    /\ epoch' = -1
    /\ next_epoch' = 0
    /\ params' = 0
    /\ fresh' = 1
    /\ training' = TRUE
    /\ grad' = {}
    /\ npass' = 0
    /\ iter' = <<>>
    /\ it' = NoIt
    /\ epoch_loss' = <<>>
    /\ accuracy' = <<>>
    /\ count' = 0
    /\ loss' = [terms |-> <<>>, div |-> 0]
    /\ train_acc' = [terms |-> <<>>, div |-> 0]
    /\ val_acc' = None
    /\ test_acc' = None
    /\ best' = BestInit
    /\ oracle' = {}
    /\ log' = <<>>
    /\ out' = <<>>
    /\ err' = ""

\* The process dies (kernel killed, power loss) at any point of the run: what
\* it held in memory is gone, checkpoint.pkl stays as it is.
Crash ==
    /\ pc \notin {"done", "error", "crashed"}
    /\ pc' = "crashed"
    /\ NewKernel
    /\ UNCHANGED <<cfg, caller, file, dl>>

\* Cell 7 is executed again in the same kernel (num_epochs possibly edited):
\* lines 300-306 make a new optimizer and set best and num_epochs; the model
\* with its parameters, mode and gradients, and the variables epoch, loss,
\* train_acc, val_acc and test_acc keep the values the earlier execution left;
\* the output of the cell starts empty. The kernel trains at most MaxTrained
\* epochs in all. Of the scores seen, those of parameters that are neither in
\* the model nor in checkpoint.pkl cannot be seen again and are dropped.
RerunCell ==
    /\ pc \in {"done", "error"}
    /\ \E n \in 0..MaxEpochs :
          /\ npass + n <= MaxTrained
          /\ cfg' = [cfg EXCEPT !.num_epochs = n]
    /\ best' = BestInit
    /\ next_epoch' = 0
    /\ pc' = "for"
    /\ log' = <<>>
    /\ out' = <<>>
    /\ err' = ""
    /\ oracle' = {e \in oracle : e[1] \in {params, file.data}}
    /\ UNCHANGED <<caller, calls, epoch, modelVars, trainVars, val_acc, test_acc,
                   file, dl>>

\* The whole notebook is run again in a new kernel (num_epochs possibly
\* edited): cells 3, 4 and 7 build the loaders, the model and best anew;
\* nothing removes checkpoint.pkl, which stays as the earlier kernel left it.
Rerun ==
    /\ pc \in {"done", "error", "crashed"}
    /\ \E n \in 0..MaxEpochs : cfg' = [cfg EXCEPT !.num_epochs = n]
    /\ file' = IF file.st = "absent" THEN file ELSE [file EXCEPT !.data = StaleState]
    /\ pc' = "for"
    /\ NewKernel
    /\ UNCHANGED <<caller, dl>>

Next ==
    \/ ForNext
    \/ TrainBegin
    \/ TrainBatch
    \/ TrainEnd
    \/ EvalVal
    \/ CheckBest
    \/ SaveOpen
    \/ SaveWrite
    \/ PrintEpoch
    \/ LoadBest
    \/ EvalTest
    \/ PrintTest
    \/ Crash
    \/ RerunCell
    \/ Rerun

Spec == Init /\ [][Next]_vars

\* ------------------------------------------------------- notebook session
\* Cells 5 and 6 define train and evaluate; a session calls them by hand, in
\* any order, on the loaders of cell 3. A call that raised ends its cell only:
\* the kernel goes on with what the call left, and the next call starts with
\* no exception pending.
InitLoops ==
    /\ InitCommon
    /\ cfg \in {c \in Configs : c.num_epochs = 0}
    /\ dl = Idle
    /\ pc = "idle"
    /\ caller = "session"
    /\ file \in {NoFile, [st |-> "complete", data |-> StaleState]}

\* train(optimizer, model, feature_names, train_loader, loss_func, metric)
CallTrain ==
    /\ pc \in {"idle", "error"}
    /\ calls < MaxCalls
    /\ calls' = calls + 1
    /\ pc' = "train_begin"
    /\ err' = ""
    /\ UNCHANGED <<cfg, caller, loopVars, modelVars, trainVars, val_acc, test_acc,
                   ckptVars, oracle, log, out, dl>>

\* evaluate(model, feature_names, loader, metric), loader one of val, test
CallEvaluate ==
    /\ pc \in {"idle", "error"}
    /\ calls < MaxCalls
    /\ calls' = calls + 1
    /\ \E ldr \in {"val", "test"}, r \in Vals \cup {None}, ok \in BOOLEAN :
          /\ Evaluate(ldr, r, ok)
          /\ pc' = IF ok THEN "idle" ELSE "error"
          /\ val_acc' = IF ok /\ ldr = "val" THEN r ELSE val_acc
          /\ test_acc' = IF ok /\ ldr = "test" THEN r ELSE test_acc
    /\ UNCHANGED <<cfg, caller, loopVars, trainVars, ckptVars, out, dl>>

NextLoops ==
    \/ CallTrain
    \/ CallEvaluate
    \/ TrainBegin
    \/ TrainBatch
    \/ TrainEnd

SpecLoops == InitLoops /\ [][NextLoops]_vars

\* ------------------------------------------------------ batch loader passes
\* DataLoaderReactionNetwork(dataset, batch_size=B, shuffle=...)
InitLoader ==
    /\ InitCommon
    /\ cfg \in {c \in Configs : c.num_epochs = 0 /\ c.ntrain = 0 /\ c.batch = 1
                                /\ c.nval = 0 /\ c.ntest = 0}
    /\ pc = "loader"
    /\ caller = "session"
    /\ file = NoFile
    /\ \E n \in 0..MaxN, B \in 1..MaxBatch, sh \in BOOLEAN :
          dl = [ds |-> Dataset(n), B |-> B, shuffle |-> sh, iter |-> <<>>,
                yielded |-> <<>>, npass |-> 0, active |-> FALSE]

\* iter(loader): a new pass; with shuffle the order is drawn anew
IterStart ==
    /\ pc = "loader"
    /\ ~dl.active
    /\ dl.npass < MaxPasses
    /\ \E p \in Perms(1..Len(dl.ds)) :
          /\ dl.shuffle \/ p = [i \in 1..Len(dl.ds) |-> i]
          /\ dl' = [dl EXCEPT !.iter = Batches([i \in 1..Len(dl.ds) |-> dl.ds[p[i]]], dl.B),
                              !.yielded = <<>>,
                              !.npass = dl.npass + 1,
                              !.active = TRUE]
    /\ UNCHANGED <<cfg, pc, caller, calls, loopVars, modelVars, trainVars, val_acc,
                   test_acc, ckptVars, oracle, log, out, err>>

\* next(it): the next batch
IterNext ==
    /\ pc = "loader"
    /\ dl.active
    /\ dl.iter # <<>>
    /\ dl' = [dl EXCEPT !.iter = Tail(dl.iter),
                        !.yielded = Append(dl.yielded, Head(dl.iter))]
    /\ UNCHANGED <<cfg, pc, caller, calls, loopVars, modelVars, trainVars, val_acc,
                   test_acc, ckptVars, oracle, log, out, err>>

\* next(it) on an exhausted pass: StopIteration ends the pass
IterStop ==
    /\ pc = "loader"
    /\ dl.active
    /\ dl.iter = <<>>
    /\ dl' = [dl EXCEPT !.active = FALSE]
    /\ UNCHANGED <<cfg, pc, caller, calls, loopVars, modelVars, trainVars, val_acc,
                   test_acc, ckptVars, oracle, log, out, err>>

NextLoader ==
    \/ IterStart
    \/ IterNext
    \/ IterStop

SpecLoader == InitLoader /\ [][NextLoader]_vars

\* ----------------------------------------------------- reading the history
Idx(kind) == {i \in DOMAIN log : log[i].ev = kind}

\* The maybe_save calls made so far (lines 319-322, once per epoch).
SaveCalls == Idx("maybe_save")

\* What best was when the call logged at i was made.
BestBefore(i) ==
    LET earlier == {j \in Idx("save") : j < i}
    IN  IF earlier = {} THEN BestInit
        ELSE log[CHOOSE j \in earlier : \A k \in earlier : k <= j].val

\* The calls whose metric is a number.
NumberCalls == {i \in SaveCalls : log[i].val # NaN}

\* The earliest call with the smallest metric among the numbers seen.
IsBestCall(i) ==
    /\ i \in NumberCalls
    /\ \A j \in NumberCalls : ~Lt(log[j].val, log[i].val)
    /\ \A j \in NumberCalls : j < i => Lt(log[i].val, log[j].val)

\* The parameters after the last optimizer step of training pass p.
ParamsAfterPass(p) ==
    LET st == {i \in Idx("step") : log[i].pass = p}
    IN  log[CHOOSE i \in st : \A j \in st : j <= i].params

\* The evaluations of the test set, returned or raised.
TestEvals == {i \in DOMAIN log : log[i].ev \in {"eval", "eval_raise"} /\ log[i].fn = "test"}

\* Every epoch of the run has made its maybe_save call.
EpochsDone == Cardinality(SaveCalls) = cfg.num_epochs

\* ------------------------------------------------------------------ claims

\* C1: between maybe_save calls, a save followed exactly the calls whose
\* metric was strictly below best_so_far at that moment, and as soon as a
\* metric has been seen, best_so_far is the smallest metric seen and the
\* checkpoint holds the state passed with its earliest occurrence.
C1_BestIsSmallestMetricSeen ==
    pc = "for" =>
        /\ \A i \in SaveCalls :
              (i + 1 \in Idx("save")) <=> Lt(log[i].val, BestBefore(i))
        /\ \A i \in SaveCalls : IsBestCall(i) =>
              /\ best = log[i].val
              /\ file = [st |-> "complete", data |-> log[i].params]

\* C2: the test evaluation comes after all epochs and after the one load;
\* when a save occurred it runs on the parameters the model had at the end of
\* training in the earliest epoch with the smallest validation metric; a
\* finished run has loaded once and evaluated the test set once.
C2_TestUsesBestEpoch ==
    /\ Cardinality(Idx("load")) <= 1
    /\ Cardinality(TestEvals) <= 1
    /\ pc = "done" => Cardinality(Idx("load")) = 1 /\ Cardinality(TestEvals) = 1
    /\ \A t \in TestEvals :
          /\ EpochsDone
          /\ \E l \in Idx("load") :
                /\ l < t
                /\ \A i \in SaveCalls \cup Idx("step") \cup Idx("save") : i < l
          /\ (cfg.num_epochs >= 1 /\ Idx("save") # {}) =>
                \E b \in SaveCalls :
                    /\ IsBestCall(b)
                    /\ log[t].params = ParamsAfterPass(log[b].pass)
                    /\ log[t].params = params

C2_Witness ==
    /\ pc = "done"
    /\ Idx("save") # {}
    /\ \E t \in TestEvals : log[t].params # ParamsAfterPass(npass)

\* C3: after a crash checkpoint.pkl is absent or a complete checkpoint, never
\* a partially written one.
C3_CrashLeavesWholeFile ==
    pc = "crashed" => file.st \in {"absent", "complete"}

\* C4: a load that follows no save of this run fails with FileNotFoundError,
\* leaves the parameters alone and is followed by no test evaluation and no
\* test_acc; a load that succeeds returns the state of this run's last save.
\* (Stated for the runs that do not start on a file a crash left empty.)
C4_LoadNeedsSaveOfThisRun ==
    /\ \A l \in Idx("load") :
          /\ Idx("save") # {}
          /\ log[l].params = log[CHOOSE s \in Idx("save") : \A k \in Idx("save") : k <= s].params
    /\ (/\ pc \in {"eval_test", "print_test", "done", "error"}
        /\ EpochsDone
        /\ file.st # "empty"
        /\ Idx("save") = {}) =>
          /\ pc = "error"
          /\ err = "FileNotFoundError"
          /\ Idx("load") = {}
          /\ TestEvals = {}
          /\ \A i \in DOMAIN out : out[i].epoch # -1

\* C5: every optimizer step uses the gradients of the loss of its own batch
\* only, the steps of a pass come in batch order, and when train returns after
\* k >= 1 batches it has made exactly k steps, divides the loss by k and has
\* counted every example of the training set once.
C5_OneStepPerBatch ==
    /\ \A i \in Idx("step") : log[i].grad = {<<log[i].pass, log[i].it>>}
    /\ \A i, j \in Idx("step") :
          (i < j /\ log[i].pass = log[j].pass) => log[i].it < log[j].it
    /\ pc = "eval_val" =>
          LET k == Len(LoaderBatches("train"))
              mine == {i \in Idx("step") : log[i].pass = npass}
          IN  /\ k >= 1
              /\ Cardinality(mine) = k
              /\ {log[i].it : i \in mine} = 0..(k - 1)
              /\ loss = [terms |-> [i \in 1..k |-> i - 1], div |-> k]
              /\ train_acc = [terms |-> [i \in 1..k |-> i - 1], div |-> cfg.ntrain]

C5_Witness ==
    /\ pc = "eval_val"
    /\ npass >= 2
    /\ Len(LoaderBatches("train")) >= 2
    /\ cfg.ntrain % cfg.batch # 0

\* C8: an epoch whose val_acc is NaN goes from the comparison straight to the
\* progress record with best and the checkpoint untouched and no exception;
\* the record printed holds the val_acc of the epoch; a number is saved
\* exactly when it is below the best that the NaN epochs left unchanged.
C8_NaNNeverCheckpointed ==
    [][/\ (pc = "is_best" /\ val_acc = NaN /\ pc' # "crashed") =>
              (pc' = "print" /\ best' = best /\ file' = file /\ err' = "")
       /\ (pc = "is_best" /\ val_acc # NaN /\ pc' # "crashed") =>
              ((pc' = "save_open") <=> Lt(val_acc, best))
       /\ (pc = "print" /\ pc' # "crashed") =>
              /\ pc' = "for"
              /\ Len(out') = Len(out) + 1
              /\ out'[Len(out')].acc = val_acc
              /\ out'[Len(out')].epoch = epoch]_vars

C8_Witness ==
    /\ pc = "for"
    /\ \E i, j \in DOMAIN out :
          /\ i < j
          /\ out[i].acc = NaN
          /\ out[j].acc = best
          /\ \E s \in Idx("save") : log[s].it = out[j].epoch /\ file.data = log[s].params

\* C9: an evaluation returns a value only on a loader that holds examples;
\* on an empty loader it raises ZeroDivisionError, which ends the run at once:
\* nothing is logged after it, and the epoch has no maybe_save call, no save
\* and no progress record.
C9_EmptyLoaderRaises ==
    /\ \A i \in Idx("eval") : Sum(LoaderBatches(log[i].fn)) > 0
    /\ \A i \in Idx("eval_raise") :
          /\ Sum(LoaderBatches(log[i].fn)) = 0
          /\ i = Len(log)
          /\ pc = "error"
          /\ err = "ZeroDivisionError"
          /\ log[i].fn = "val" =>
                /\ Len(out) = epoch
                /\ Cardinality(SaveCalls) = epoch
                /\ epoch > 0 => val_acc = out[epoch].acc
          /\ log[i].fn = "test" =>
                \A k \in DOMAIN out : out[k].epoch # -1
    /\ \A e \in {"val", "test"} :
          (pc \in (IF e = "val" THEN {"is_best"} ELSE {"print_test"})) =>
              Sum(LoaderBatches(e)) > 0

C9_Witness ==
    /\ pc = "error"
    /\ err = "ZeroDivisionError"
    /\ epoch >= 0
    /\ \E i \in Idx("eval_raise") : log[i].fn = "val"

\* C10: every optimizer step is made in training mode and every prediction of
\* evaluate in inference mode; a save stores the parameters as they are after
\* the last optimizer step of its epoch, after the validation evaluation of
\* that epoch, and no optimizer step lies between that evaluation and the save.
C10_ModeDiscipline ==
    /\ \A i \in Idx("step") : log[i].training
    /\ \A i \in Idx("predict") :
          IF log[i].fn = "evaluate" THEN ~log[i].training ELSE log[i].training
    /\ \A s \in Idx("save") :
          /\ log[s].params = ParamsAfterPass(log[s].pass)
          /\ \A i \in Idx("step") : i < s <=> log[i].pass <= log[s].pass
          /\ \E e \in Idx("eval") :
                /\ e < s
                /\ log[e].fn = "val"
                /\ log[e].pass = log[s].pass
                /\ log[e].params = log[s].params
                /\ log[e].val = log[s].val
                /\ \A i \in Idx("step") : log[i].pass = log[s].pass => i < e

C10_Witness ==
    /\ \E i \in Idx("step") : log[i].pass >= 2
    /\ \E s \in Idx("save") : log[s].pass >= 2
    /\ \E i \in Idx("predict") : log[i].fn = "evaluate" /\ log[i].pass >= 2

\* C6: an evaluate call makes no optimizer step and leaves the parameters,
\* the gradients, best and the checkpoint as they were; two evaluate calls in
\* a row on the same loader return the same value.
C6_EvaluateIdempotent ==
    /\ [][(log' # log /\ log'[Len(log')].ev \in {"eval", "eval_raise"}) =>
              /\ params' = params
              /\ fresh' = fresh
              /\ grad' = grad
              /\ best' = best
              /\ file' = file]_vars
    /\ [](\A i, j \in Idx("eval") :
              (/\ i < j
               /\ log[i].fn = log[j].fn
               /\ \A k \in (i + 1)..(j - 1) :
                     log[k].ev = "predict" /\ log[k].fn = "evaluate") =>
                  /\ log[i].val = log[j].val
                  /\ log[i].params = log[j].params)

C6_Witness ==
    \E i, j \in Idx("eval") :
        /\ i < j
        /\ log[i].fn = log[j].fn
        /\ \A k \in (i + 1)..(j - 1) : log[k].ev = "predict" /\ log[k].fn = "evaluate"
        /\ log[i].params > 0
        /\ log[i - 1].ev = "predict"

\* C7: the batches of a pass hold every example of the dataset exactly once,
\* none is empty or larger than B and only the last may be smaller than B;
\* without shuffle their concatenation is the dataset in its order; a pass
\* that has ended has yielded all of them; the dataset is never changed.
C7_PassCoversEveryExampleOnce ==
    LET all == dl.yielded \o dl.iter
        flat == Concat(all)
    IN  /\ dl.ds = Dataset(Len(dl.ds))
        /\ dl.npass > 0 =>
              /\ Len(flat) = Len(dl.ds)
              /\ \A x \in 1..Len(dl.ds) :
                    Cardinality({q \in 1..Len(flat) : flat[q] = dl.ds[x]}) = 1
              /\ \A b \in 1..Len(all) :
                    /\ Len(all[b]) >= 1
                    /\ Len(all[b]) <= dl.B
                    /\ b < Len(all) => Len(all[b]) = dl.B
              /\ ~dl.shuffle => flat = dl.ds
              /\ ~dl.active => dl.iter = <<>>

C7_Witness ==
    /\ dl.npass = 2
    /\ ~dl.active
    /\ dl.shuffle
    /\ Len(dl.yielded) >= 2
    /\ Len(dl.yielded[Len(dl.yielded)]) < dl.B
    /\ Concat(dl.yielded) # dl.ds

====
